---- MODULE Spec2Model ----
(***************************************************************************)
(* A model of RoachJS's request-dispatch core:                             *)
(*   - the radix-tree Router (src/src/router.js): add, _insertStatic,      *)
(*     find, _search, _matchStatic, _splitPath, _commonPrefixLength;       *)
(*   - the MiddlewareChain executor (src/src/errors.js, module             *)
(*     "middleware"): execute and its continuation next.                   *)
(* Strings are sequences of one-character strings, so that splitting,      *)
(* slicing, prefix comparison and key formatting are computed, not assumed.*)
(***************************************************************************)
EXTENDS Integers, Sequences, FiniteSets, TLC

VARIABLES
    nodes,          \* the RadixNode arena: nodes[1] is Router.root
    staticRoutes,   \* Router.staticRoutes: key "METHOD:path" -> route entry
    calls,          \* history of add() calls: arguments and outcome
    exec,           \* per execute() call: its closure (idx), res.sent, and history
    stack,          \* the synchronous call stack of user functions
    entry,          \* what started the current synchronous run
    layers,         \* MiddlewareChain.layers
    finds,          \* history of find() calls: arguments and result
    req             \* one request object: the closure of createRequest()

routerVars == <<nodes, staticRoutes, calls>>
execVars == <<exec, stack, entry>>
chainVars == <<layers>>
findVars == <<finds>>
reqVars == <<req>>
vars == <<nodes, staticRoutes, calls, exec, stack, entry, layers, finds, req>>

----------------------------------------------------------------------------
(* Bounds *)

MaxAdds == 3

\* The longest middleware list handed to execute()
MaxFns == 2

\* How many calls of next() the middleware functions of one execution
\* make at most, all together
MaxNextCalls == 2

\* How many layers are added to the middleware chain at most
MaxLayers == 3

\* How many find() calls are followed
MaxFinds == 3

\* How many times req.query and req.body are read, together
MaxReads == 3

----------------------------------------------------------------------------
(* Strings *)

\* String.prototype.slice(from) with a 0-based index
Slice(s, from) == SubSeq(s, from + 1, Len(s))

\* String.prototype.slice(0, to)
SliceTo(s, to) == SubSeq(s, 1, to)

\* String.prototype.includes for a single character
Includes(s, c) == \E i \in 1..Len(s) : s[i] = c

UpperChar(c) ==
    CASE c = "g" -> "G"
      [] c = "e" -> "E"
      [] c = "t" -> "T"
      [] c = "p" -> "P"
      [] c = "o" -> "O"
      [] c = "s" -> "S"
      [] OTHER -> c

\* A string left in the case it was given in
KeepCase(s) == s

\* String.prototype.toUpperCase
ToUpperCase(s) == [i \in 1..Len(s) |-> UpperChar(s[i])]

\* Array.prototype.join('/')
RECURSIVE JoinSlash(_)
JoinSlash(segs) ==
    IF segs = <<>> THEN <<>>
    ELSE IF Len(segs) = 1 THEN segs[1]
    ELSE segs[1] \o <<"/">> \o JoinSlash(Tail(segs))

\* Router._splitPath: path.split('/').filter(Boolean)
RECURSIVE SplitFrom(_, _, _)
SplitFrom(path, i, cur) ==
    IF i > Len(path)
    THEN (IF cur = <<>> THEN <<>> ELSE <<cur>>)
    ELSE IF path[i] = "/"
         THEN (IF cur = <<>> THEN <<>> ELSE <<cur>>) \o SplitFrom(path, i + 1, <<>>)
         ELSE SplitFrom(path, i + 1, Append(cur, path[i]))

_splitPath(path) == SplitFrom(path, 1, <<>>)

\* Router._commonPrefixLength
RECURSIVE PrefixFrom(_, _, _)
PrefixFrom(a, b, i) ==
    LET len == IF Len(a) < Len(b) THEN Len(a) ELSE Len(b)
    IN  IF i < len /\ a[i + 1] = b[i + 1] THEN PrefixFrom(a, b, i + 1) ELSE i

\* A comparison that never finds a shared prefix
NoCommonPrefix(a, b) == 0

_commonPrefixLength(a, b) == PrefixFrom(a, b, 0)

----------------------------------------------------------------------------
(* RadixNode *)

NoParams == [k \in {} |-> <<>>]
NoHandlers == [k \in {} |-> 0]

\* new RadixNode(label); 0 stands for a null child reference,
\* <<>> for a null paramName
RadixNode(label) ==
    [label |-> label, children |-> <<>>, handlers |-> NoHandlers,
     paramName |-> <<>>, isWildcard |-> FALSE, paramChild |-> 0,
     wildcardChild |-> 0]

root == 1

\* Map.prototype.set
MapSet(map, key, value) ==
    [k \in (DOMAIN map) \cup {key} |-> IF k = key THEN value ELSE map[k]]

\* delete obj[key]
Delete(obj, key) == [k \in (DOMAIN obj) \ {key} |-> obj[k]]

\* `${method}:${path}`
StaticKey(method, path) == method \o <<":">> \o path

----------------------------------------------------------------------------
(* Router._insertStatic: returns the arena after the insertion and the     *)
(* node that ends the segment.                                             *)

RECURSIVE InsertFrom(_, _, _, _)
InsertFrom(ns, parent, segment, i) ==
    IF i > Len(ns[parent].children)
    THEN \* no child shares a prefix: append a new child
         LET id == Len(ns) + 1
         IN  [nodes |-> Append([ns EXCEPT ![parent].children = Append(@, id)],
                               RadixNode(segment)),
              node |-> id]
    ELSE
      LET child == ns[parent].children[i]
          label == ns[child].label
          commonLen == _commonPrefixLength(label, segment)
      IN  IF commonLen = 0 THEN InsertFrom(ns, parent, segment, i + 1)
          ELSE IF commonLen = Len(label) /\ commonLen = Len(segment)
          THEN [nodes |-> ns, node |-> child]
          ELSE IF commonLen = Len(label)
          THEN InsertFrom(ns, child, Slice(segment, commonLen), 1)
          ELSE \* commonLen < child.label.length: split the edge
            LET splitId == Len(ns) + 1
                splitNode == [RadixNode(SliceTo(label, commonLen))
                                EXCEPT !.children = <<child>>]
                ns1 == Append([ns EXCEPT ![child].label = Slice(label, commonLen),
                                         ![parent].children[i] = splitId],
                              splitNode)
            IN  IF commonLen = Len(segment)
                THEN [nodes |-> ns1, node |-> splitId]
                ELSE LET newId == splitId + 1
                     IN  [nodes |-> Append([ns1 EXCEPT ![splitId].children = Append(@, newId)],
                                           RadixNode(Slice(segment, commonLen))),
                          node |-> newId]

_insertStatic(ns, parent, segment) == InsertFrom(ns, parent, segment, 1)

----------------------------------------------------------------------------
(* Router.add *)

\* A parameter child taken whatever its name
ParamNameNeverDiffers(existing, paramName) == FALSE

\* node.paramChild.paramName !== paramName (router.js 116)
ParamNameDiffers(existing, paramName) == existing # paramName

\* The loop over the segments (router.js 104-135). A throw leaves the
\* arena as mutated so far.
RECURSIVE AddWalk(_, _, _, _)
AddWalk(ns, node, segments, i) ==
    IF i > Len(segments) THEN [nodes |-> ns, node |-> node, err |-> "none"]
    ELSE
      LET segment == segments[i] IN
      IF segment[1] = ":"
      THEN LET paramName == Slice(segment, 1) IN
           IF paramName = <<>>
           THEN [nodes |-> ns, node |-> node, err |-> "InvalidRouteError"]
           ELSE IF ns[node].paramChild = 0
           THEN LET id == Len(ns) + 1
                    ns1 == Append([ns EXCEPT ![node].paramChild = id],
                                  [RadixNode(segment) EXCEPT !.paramName = paramName])
                IN  AddWalk(ns1, id, segments, i + 1)
           ELSE IF ParamNameDiffers(ns[ns[node].paramChild].paramName, paramName)
           THEN [nodes |-> ns, node |-> node, err |-> "RouteConflictError"]
           ELSE AddWalk(ns, ns[node].paramChild, segments, i + 1)
      ELSE IF segment = <<"*">>
      THEN IF i # Len(segments)
           THEN [nodes |-> ns, node |-> node, err |-> "InvalidRouteError"]
           ELSE IF ns[node].wildcardChild = 0
           THEN LET id == Len(ns) + 1
                    ns1 == Append([ns EXCEPT ![node].wildcardChild = id],
                                  [RadixNode(<<"*">>) EXCEPT !.isWildcard = TRUE])
                IN  AddWalk(ns1, id, segments, i + 1)
           ELSE AddWalk(ns, ns[node].wildcardChild, segments, i + 1)
      ELSE LET r == _insertStatic(ns, node, segment)
           IN  AddWalk(r.nodes, r.node, segments, i + 1)

\* A registration that forgets the cache
CacheSetSkipped(cache, key, route) == cache

\* this.staticRoutes.set(key, { handler, middleware }) (router.js 98)
CacheSet(cache, key, route) == MapSet(cache, key, route)

\* The whole of add(): the arena and the cache it leaves, and how it ended
\* ("ok", or the name of the error thrown).
add(ns, cache, method0, path, middleware, handler) ==
    LET method == ToUpperCase(method0)
        route == [handler |-> handler, middleware |-> middleware]
    IN
    IF path = <<>> \/ path[1] # "/"
    THEN [nodes |-> ns, staticRoutes |-> cache, outcome |-> "InvalidRouteError"]
    ELSE
      LET isStatic == ~Includes(path, ":") /\ ~Includes(path, "*")
          key == StaticKey(method, path)
      IN
      IF isStatic /\ key \in DOMAIN cache
      THEN [nodes |-> ns, staticRoutes |-> cache, outcome |-> "RouteConflictError"]
      ELSE
        LET cache1 == IF isStatic THEN CacheSet(cache, key, route) ELSE cache
            w == AddWalk(ns, root, _splitPath(path), 1)
        IN
        IF w.err # "none"
        THEN [nodes |-> w.nodes, staticRoutes |-> cache1, outcome |-> w.err]
        ELSE IF method \in DOMAIN w.nodes[w.node].handlers
        THEN [nodes |-> w.nodes, staticRoutes |-> cache1,
              outcome |-> "RouteConflictError"]
        ELSE [nodes |-> [w.nodes EXCEPT ![w.node].handlers = MapSet(@, method, route)],
              staticRoutes |-> cache1, outcome |-> "ok"]

----------------------------------------------------------------------------
(* Router.find *)

\* A result that leaves the route's middleware behind
MatchWithoutMiddleware(route, params) ==
    [isNull |-> FALSE, handler |-> route.handler, params |-> params,
     middleware |-> <<>>]

NoMatch == [isNull |-> TRUE]

Match(route, params) ==
    [isNull |-> FALSE, handler |-> route.handler, params |-> params,
     middleware |-> route.middleware]

\* Router._matchStatic: the next segment index, or 0 for null.
\* Segment indexes are 1-based here.
_matchStatic(ns, child, segments, segIdx) ==
    IF segIdx > Len(segments) THEN 0
    ELSE IF ns[child].label = segments[segIdx] THEN segIdx + 1
    ELSE 0

\* Router._search. params is one object mutated along the way, so the
\* operator returns it together with the result.
\* A search that, with the segments exhausted, also takes the wildcard
\* child's route
AtEndOrWildcard(ns, node, params, method) ==
    IF method \in DOMAIN ns[node].handlers
    THEN [result |-> Match(ns[node].handlers[method], params), params |-> params]
    ELSE IF ns[node].wildcardChild # 0
            /\ method \in DOMAIN ns[ns[node].wildcardChild].handlers
    THEN [result |-> Match(ns[ns[node].wildcardChild].handlers[method], params),
          params |-> params]
    ELSE [result |-> NoMatch, params |-> params]

\* The segments are exhausted (router.js 232-238): only the handlers of
\* the node are consulted
AtEnd(ns, node, params, method) ==
    IF method \in DOMAIN ns[node].handlers
    THEN [result |-> Match(ns[node].handlers[method], params), params |-> params]
    ELSE [result |-> NoMatch, params |-> params]

\* A search that stops at a static child that matched the segment,
\* whatever was found below it
StaticBranchCommits(ns, node, segments, segIdx, s) ==
    \/ ~s.result.isNull
    \/ \E k \in DOMAIN ns[node].children :
          _matchStatic(ns, ns[node].children[k], segments, segIdx) # 0

\* `if (result) return result` in the loop over the static children
\* (router.js 242-248): only a route found below a static child ends the
\* search at this node
StaticBranchSettles(ns, node, segments, segIdx, s) == ~s.result.isNull

RECURSIVE _search(_, _, _, _, _, _)
RECURSIVE SearchChildren(_, _, _, _, _, _, _)

SearchChildren(ns, node, k, segments, segIdx, params, method) ==
    IF k > Len(ns[node].children) THEN [result |-> NoMatch, params |-> params]
    ELSE LET child == ns[node].children[k]
             match == _matchStatic(ns, child, segments, segIdx)
         IN  IF match # 0
             THEN LET r == _search(ns, child, segments, match, params, method)
                  IN  IF ~r.result.isNull THEN r
                      ELSE SearchChildren(ns, node, k + 1, segments, segIdx,
                                          r.params, method)
             ELSE SearchChildren(ns, node, k + 1, segments, segIdx, params, method)

_search(ns, node, segments, segIdx, params, method) ==
    IF segIdx = Len(segments) + 1
    THEN AtEnd(ns, node, params, method)
    ELSE
      LET segment == segments[segIdx]
          s == SearchChildren(ns, node, 1, segments, segIdx, params, method)
      IN
      IF StaticBranchSettles(ns, node, segments, segIdx, s) THEN s
      ELSE
        LET pc == ns[node].paramChild
            p1 == IF pc # 0 THEN MapSet(s.params, ns[pc].paramName, segment)
                  ELSE s.params
            pr == IF pc # 0
                  THEN _search(ns, pc, segments, segIdx + 1, p1, method)
                  ELSE [result |-> NoMatch, params |-> s.params]
        IN
        IF ~pr.result.isNull THEN pr
        ELSE
          LET p2 == IF pc # 0 THEN Delete(pr.params, ns[pc].paramName)
                    ELSE s.params
              wc == ns[node].wildcardChild
          IN
          IF wc # 0
          THEN LET wildcardValue == JoinSlash(SubSeq(segments, segIdx, Len(segments)))
                   p3 == MapSet(p2, <<"*">>, wildcardValue)
               IN  IF method \in DOMAIN ns[wc].handlers
                   THEN [result |-> Match(ns[wc].handlers[method], p3), params |-> p3]
                   ELSE [result |-> NoMatch, params |-> Delete(p3, <<"*">>)]
          ELSE [result |-> NoMatch, params |-> p2]

\* The tree walk of find() alone (router.js 213-217)
TreeFind(ns, method, path) ==
    _search(ns, root, _splitPath(path), 1, NoParams, method).result

\* Router.find on a given tree and cache
find(ns, cache, method0, path) ==
    LET method == ToUpperCase(method0)
        staticKey == StaticKey(method, path)
    IN  IF staticKey \in DOMAIN cache
        THEN Match(cache[staticKey], NoParams)
        ELSE TreeFind(ns, method, path)

\* find() on the current router
Find(method, path) == find(nodes, staticRoutes, method, path)

----------------------------------------------------------------------------
(* MiddlewareChain.execute (src/src/errors.js, module "middleware")        *)
(*                                                                         *)
(* The middleware functions, the handler and the error handler are the     *)
(* caller's code: each one, while it runs, may send the response, throw,   *)
(* return, or return a promise, and a middleware may call its continuation *)
(* (now, or later from the event loop). What execute() and next() do with  *)
(* that is the code modelled here.                                         *)

Execs == {1, 2}

\* next() called with no argument
Undefined == "undefined"

\* Values a function throws or a promise rejects with: an Error object,
\* and the number 0 (a falsy value)
ThrowValues == {"Error", "0"}

\* What a middleware function hands to next(): nothing, or an Error object
NextArgs == {Undefined, "Error"}

\* JavaScript truthiness, as `if (err)` reads it
Truthy(v) == v \notin {Undefined, "0"}

\* An entry of the history of invocations: a middleware function (its
\* position i in middlewareFns), the handler, or the error handler (with
\* the error v it was given)
Invoked(f, i, v) == [f |-> f, i |-> i, v |-> v]

NotStarted ==
    [started |-> FALSE, n |-> 0, idx |-> 0, sent |-> FALSE, log |-> <<>>,
     nextArgs |-> <<>>, pendingMw |-> 0, pendingHandler |-> 0,
     faulted |-> FALSE, escapes |-> {}]

\* let idx = 0 (errors.js 248), with a list of n middleware functions
Started(n) ==
    [NotStarted EXCEPT !.started = TRUE, !.n = n,
                       !.nextArgs = [i \in 1..n |-> <<>>]]

\* How many times the middleware functions have called next() so far:
\* the calls recorded from position i on
RECURSIVE CountCalls(_, _)
CountCalls(args, i) ==
    IF i > Len(args) THEN 0 ELSE Len(args[i]) + CountCalls(args, i + 1)

\* A cursor that is not moved on
IdxKept(idx) == idx

\* idx++ (errors.js 273)
IdxAdvanced(idx) == idx + 1

\* A response whose sent flag is not looked at
ResSentIgnored(x) == FALSE

\* res.sent, as next() reads it (errors.js 256)
ResSent(x) == x.sent

\* One cursor for all executions of the chain, as a field of the chain
\* would be
SharedCursor(ex, e, x) ==
    [f \in DOMAIN ex |-> IF f = e THEN x ELSE [ex[f] EXCEPT !.idx = x.idx]]

\* `let idx = 0` and `const next` are local to one call of execute()
\* (errors.js 248-250): a step of execution e writes the state of e only
OwnCursor(ex, e, x) == [ex EXCEPT ![e] = x]

\* The continuation next(err) (errors.js 250-283), up to the user function
\* it invokes: the execution's state after it, and the function invoked
\* ("none" when it returns without invoking one).
next(x, err) ==
    IF Truthy(err)
    THEN [x |-> [x EXCEPT !.log = Append(@, Invoked("errorHandler", 0, err))],
          invokes |-> "errorHandler", i |-> 0]
    ELSE IF ResSent(x)
    THEN [x |-> x, invokes |-> "none", i |-> 0]
    ELSE IF x.idx >= x.n
    THEN [x |-> [x EXCEPT !.log = Append(@, Invoked("handler", 0, Undefined))],
          invokes |-> "handler", i |-> 0]
    ELSE [x |-> [x EXCEPT !.idx = IdxAdvanced(@),
                          !.log = Append(@, Invoked("fn", x.idx, Undefined))],
          invokes |-> "fn", i |-> x.idx]

\* The stack after a call of next(): the invoked function runs on top
Called(stk, e, r) ==
    IF r.invokes = "none" THEN stk
    ELSE Append(stk, [e |-> e, f |-> r.invokes, i |-> r.i])

Top == stack[Len(stack)]

Pop == SubSeq(stack, 1, Len(stack) - 1)

\* The entry point is forgotten when the synchronous run is over
EntryAfter(stk, current) == IF stk = <<>> THEN "none" ELSE current

\* chain.execute(middlewareFns, req, res, handler, errorHandler): idx = 0,
\* then next() (errors.js 247-286)
Execute(e, n) ==
    /\ stack = <<>>
    /\ ~exec[e].started
    /\ LET r == next(Started(n), Undefined)
       IN  /\ exec' = OwnCursor(exec, e, r.x)
           /\ stack' = Called(stack, e, r)
           /\ entry' = EntryAfter(stack', "execute")
    /\ UNCHANGED <<routerVars, chainVars, findVars, reqVars>>

\* A running middleware function calls next(err) or next()
CallNext(err) ==
    /\ stack # <<>>
    /\ Top.f = "fn"
    /\ LET e == Top.e
           i == Top.i + 1
       IN  /\ CountCalls(exec[e].nextArgs, 1) < MaxNextCalls
           /\ LET x1 == [exec[e] EXCEPT !.nextArgs[i] = Append(@, err)]
                  r == next(x1, err)
              IN  /\ exec' = OwnCursor(exec, e, r.x)
                  /\ stack' = Called(stack, e, r)
    /\ UNCHANGED <<entry, routerVars, chainVars, findVars, reqVars>>

\* A middleware function that was invoked earlier calls its continuation
\* from the event loop (a timer, the rest of an async function)
CallNextLater(e, i, err) ==
    /\ stack = <<>>
    /\ exec[e].started
    /\ i < exec[e].idx
    /\ CountCalls(exec[e].nextArgs, 1) < MaxNextCalls
    /\ LET x1 == [exec[e] EXCEPT !.nextArgs[i + 1] = Append(@, err)]
           r == next(x1, err)
       IN  /\ exec' = OwnCursor(exec, e, r.x)
           /\ stack' = Called(stack, e, r)
           /\ entry' = EntryAfter(stack', "next")
    /\ UNCHANGED <<routerVars, chainVars, findVars, reqVars>>

\* The running function sends the response: res.sent becomes true
Send ==
    /\ stack # <<>>
    /\ ~exec[Top.e].sent
    /\ exec' = [exec EXCEPT ![Top.e].sent = TRUE]
    /\ UNCHANGED <<stack, entry, routerVars, chainVars, findVars, reqVars>>

\* The running function returns (no promise)
Return ==
    /\ stack # <<>>
    /\ stack' = Pop
    /\ entry' = EntryAfter(stack', entry)
    /\ UNCHANGED <<exec, routerVars, chainVars, findVars, reqVars>>

\* The running middleware function or handler returns a promise:
\* result.catch(...) is attached (errors.js 264-266, 277-279)
ReturnPromise ==
    /\ stack # <<>>
    /\ Top.f \in {"fn", "handler"}
    /\ exec' = [exec EXCEPT ![Top.e] =
                   IF Top.f = "fn" THEN [@ EXCEPT !.pendingMw = @ + 1]
                   ELSE [@ EXCEPT !.pendingHandler = @ + 1]]
    /\ stack' = Pop
    /\ entry' = EntryAfter(stack', entry)
    /\ UNCHANGED <<routerVars, chainVars, findVars, reqVars>>

\* A catch that hands on only what next() would take for an error
HandlerCaughtIfTruthy(x, v) ==
    IF Truthy(v)
    THEN [x EXCEPT !.faulted = TRUE,
                   !.log = Append(@, Invoked("errorHandler", 0, v))]
    ELSE [x EXCEPT !.faulted = TRUE]

\* catch (handlerErr) { errorHandler(handlerErr, req, res) }
\* (errors.js 267-269)
HandlerCaught(x, v) ==
    [x EXCEPT !.faulted = TRUE,
              !.log = Append(@, Invoked("errorHandler", 0, v))]

\* The running function throws v.
\*  - a middleware function: catch (mwErr) { next(mwErr) }  (errors.js 280-282)
\*  - the handler: catch (handlerErr) { errorHandler(handlerErr, req, res) }
\*    (errors.js 267-269)
\*  - the error handler: nothing catches it; it leaves next() for whoever
\*    called next(): the function below on the stack, or the entry point
Throw(v) ==
    /\ stack # <<>>
    /\ Top.f = "errorHandler" => v = "Error"
    /\ LET e == Top.e
           x == exec[e]
       IN  CASE Top.f = "fn" ->
                  LET r == next([x EXCEPT !.faulted = TRUE], v)
                  IN  /\ exec' = OwnCursor(exec, e, r.x)
                      /\ stack' = Called(Pop, e, r)
             [] Top.f = "handler" ->
                  /\ exec' = [exec EXCEPT ![e] = HandlerCaught(x, v)]
                  /\ stack' = Append(Pop, [e |-> e, f |-> "errorHandler", i |-> 0])
             [] Top.f = "errorHandler" ->
                  /\ exec' = [exec EXCEPT ![e].escapes =
                                 @ \cup {IF Pop = <<>> THEN entry ELSE "next"}]
                  /\ stack' = Pop
    /\ entry' = EntryAfter(stack', entry)
    /\ UNCHANGED <<routerVars, chainVars, findVars, reqVars>>

\* A promise returned by a middleware function rejects:
\* (asyncErr) => next(asyncErr)  (errors.js 278)
RejectMw(e, v) ==
    /\ stack = <<>>
    /\ exec[e].pendingMw > 0
    /\ LET r == next([exec[e] EXCEPT !.pendingMw = @ - 1, !.faulted = TRUE], v)
       IN  /\ exec' = OwnCursor(exec, e, r.x)
           /\ stack' = Called(stack, e, r)
           /\ entry' = EntryAfter(stack', "catch")
    /\ UNCHANGED <<routerVars, chainVars, findVars, reqVars>>

\* A promise returned by the handler rejects:
\* (asyncErr) => errorHandler(asyncErr, req, res)  (errors.js 265)
RejectHandler(e, v) ==
    /\ stack = <<>>
    /\ exec[e].pendingHandler > 0
    /\ exec' = [exec EXCEPT ![e] =
                   [@ EXCEPT !.pendingHandler = @ - 1, !.faulted = TRUE,
                             !.log = Append(@, Invoked("errorHandler", 0, v))]]
    /\ stack' = <<[e |-> e, f |-> "errorHandler", i |-> 0]>>
    /\ entry' = "catch"
    /\ UNCHANGED <<routerVars, chainVars, findVars, reqVars>>

\* A returned promise fulfils: nothing was attached for that
Fulfil(e) ==
    /\ stack = <<>>
    /\ \/ /\ exec[e].pendingMw > 0
          /\ exec' = [exec EXCEPT ![e].pendingMw = @ - 1]
       \/ /\ exec[e].pendingHandler > 0
          /\ exec' = [exec EXCEPT ![e].pendingHandler = @ - 1]
    /\ UNCHANGED <<stack, entry, routerVars, chainVars, findVars, reqVars>>

----------------------------------------------------------------------------
(* MiddlewareChain.add and MiddlewareChain.resolve (src/src/errors.js)     *)

\* The path null of a global layer: told apart from every string, the
\* empty string included
Null == <<"null">>

\* `path &&`: null and the empty string are falsy
PathTruthy(path) == path # Null /\ path # <<>>

\* String.prototype.startsWith
StartsWith(s, prefix) ==
    Len(s) >= Len(prefix) /\ SubSeq(s, 1, Len(prefix)) = prefix

\* String.prototype.endsWith
EndsWith(s, suffix) ==
    Len(s) >= Len(suffix)
    /\ SubSeq(s, Len(s) - Len(suffix) + 1, Len(s)) = suffix

\* An array with x put in front
pushFront(arr, x) == <<x>> \o arr

\* Array.prototype.push
push(arr, x) == Append(arr, x)

\* chain.add(path, fn) on the layer list ls (errors.js 183-192)
MiddlewareChain_add(ls, path0, fn) ==
    LET path1 == IF PathTruthy(path0) /\ ~StartsWith(path0, <<"/">>)
                 THEN <<"/">> \o path0
                 ELSE path0
        path2 == IF PathTruthy(path1) /\ EndsWith(path1, <<"/">>) /\ Len(path1) > 1
                 THEN SubSeq(path1, 1, Len(path1) - 1)
                 ELSE path1
    IN  Append(ls, [path |-> path2, fn |-> fn])

\* A scoped layer taken for every path that starts with its prefix
LayerAppliesLoosely(layer, requestPath) ==
    \/ layer.path = Null
    \/ StartsWith(requestPath, layer.path)

\* The test of the loop body (errors.js 213-217)
LayerApplies(layer, requestPath) ==
    \/ layer.path = Null
    \/ requestPath = layer.path
    \/ StartsWith(requestPath, layer.path \o <<"/">>)

\* for (let i = 0; i < this.layers.length; i++) (errors.js 210-218),
\* from layer i + 1 on
RECURSIVE LayersFrom(_, _, _, _)
LayersFrom(ls, requestPath, i, applicable) ==
    IF i >= Len(ls) THEN applicable
    ELSE LayersFrom(ls, requestPath, i + 1,
                    IF LayerApplies(ls[i + 1], requestPath)
                    THEN push(applicable, ls[i + 1].fn)
                    ELSE applicable)

\* for (let i = 0; i < routeMiddleware.length; i++) (errors.js 220-222)
RECURSIVE RouteMiddlewareFrom(_, _, _)
RouteMiddlewareFrom(routeMiddleware, i, applicable) ==
    IF i >= Len(routeMiddleware) THEN applicable
    ELSE RouteMiddlewareFrom(routeMiddleware, i + 1,
                             push(applicable, routeMiddleware[i + 1]))

\* chain.resolve(requestPath, routeMiddleware) on the layer list ls
resolve(ls, requestPath, routeMiddleware) ==
    RouteMiddlewareFrom(routeMiddleware, 0, LayersFrom(ls, requestPath, 0, <<>>))

\* chain.add(path, fn)
Use(path, fn) ==
    /\ Len(layers) < MaxLayers
    /\ layers' = MiddlewareChain_add(layers, path, fn)
    /\ UNCHANGED <<routerVars, execVars, findVars, reqVars>>

----------------------------------------------------------------------------
(* createRequest (src/src/request.js): the getters query and body          *)

\* JavaScript values: type, text (of a string or a number), properties
\* (of an object) and identity (of an object; 0 for a primitive)
UndefinedValue == [t |-> "undefined", s |-> <<>>, map |-> NoParams, ref |-> 0]

NullValue == [t |-> "null", s |-> <<>>, map |-> NoParams, ref |-> 0]

StringValue(s) == [t |-> "string", s |-> s, map |-> NoParams, ref |-> 0]

NumberValue(s) == [t |-> "number", s |-> s, map |-> NoParams, ref |-> 0]

ObjectValue(map, ref) == [t |-> "object", s |-> <<>>, map |-> map, ref |-> ref]

\* What a call gives back: a value, or the name of what it threw
Returned(value) == [threw |-> "none", value |-> value]

Thrown(name) == [threw |-> name, value |-> UndefinedValue]

\* String.prototype.split(sep), from position i on
RECURSIVE SplitOn(_, _, _, _)
SplitOn(s, sep, i, cur) ==
    IF i > Len(s) THEN <<cur>>
    ELSE IF s[i] = sep THEN <<cur>> \o SplitOn(s, sep, i + 1, <<>>)
    ELSE SplitOn(s, sep, i + 1, Append(cur, s[i]))

\* String.prototype.indexOf(c), from position i on; -1 when absent
RECURSIVE IndexFrom(_, _, _)
IndexFrom(s, c, i) ==
    IF i >= Len(s) THEN -1
    ELSE IF s[i + 1] = c THEN i
    ELSE IndexFrom(s, c, i + 1)

\* decodeURIComponent, from position i on: '%20' is a space, a '%' that
\* is not followed by two hexadecimal digits throws URIError. Of the
\* escapes only '%20' is decoded here.
RECURSIVE DecodeFrom(_, _, _)
DecodeFrom(s, i, out) ==
    IF i > Len(s) THEN [threw |-> "none", s |-> out]
    ELSE IF s[i] # "%" THEN DecodeFrom(s, i + 1, Append(out, s[i]))
    ELSE IF i + 2 <= Len(s) /\ s[i + 1] = "2" /\ s[i + 2] = "0"
    THEN DecodeFrom(s, i + 3, Append(out, " "))
    ELSE [threw |-> "URIError", s |-> out]

decodeURIComponent(s) == DecodeFrom(s, 1, <<>>)

\* The loop of parseQueryString over the pairs (request.js 150-161)
RECURSIVE PairsFrom(_, _, _)
PairsFrom(pairs, i, result) ==
    IF i >= Len(pairs) THEN [threw |-> "none", map |-> result]
    ELSE
      LET pair == pairs[i + 1]
          eqIdx == IndexFrom(pair, "=", 0)
      IN  IF eqIdx = -1
          THEN LET key == decodeURIComponent(pair)
               IN  IF key.threw # "none" THEN [threw |-> key.threw, map |-> result]
                   ELSE PairsFrom(pairs, i + 1, MapSet(result, key.s, <<>>))
          ELSE LET key == decodeURIComponent(SliceTo(pair, eqIdx))
                   value == decodeURIComponent(Slice(pair, eqIdx + 1))
               IN  IF key.threw # "none" THEN [threw |-> key.threw, map |-> result]
                   ELSE IF value.threw # "none"
                   THEN [threw |-> value.threw, map |-> result]
                   ELSE PairsFrom(pairs, i + 1, MapSet(result, key.s, value.s))

\* parseQueryString(queryString) (request.js 144-164); ref is the identity
\* of the object it creates
parseQueryString(queryString, ref) ==
    IF queryString = <<>> THEN Returned(ObjectValue(NoParams, ref))
    ELSE LET r == PairsFrom(SplitOn(queryString, "&", 1, <<>>), 0, NoParams)
         IN  IF r.threw # "none" THEN Thrown(r.threw)
             ELSE Returned(ObjectValue(r.map, ref))

\* JSON.parse on the body texts of the model: '{}' is an object, '1' a
\* number, 'null' is null, '"a"' a string; every other text of BodyBuffers
\* is no JSON and throws SyntaxError
JSONparse(text, ref) ==
    IF text = <<"{", "}">> THEN Returned(ObjectValue(NoParams, ref))
    ELSE IF text = <<"1">> THEN Returned(NumberValue(text))
    ELSE IF text = <<"n", "u", "l", "l">> THEN Returned(NullValue)
    ELSE IF text = <<"\"", "a", "\"">> THEN Returned(StringValue(<<"a">>))
    ELSE Thrown("SyntaxError")

\* contentType.includes('application/json'), the header value taken as a
\* sequence of its parts (request.js 87)
IncludesJson(contentType) ==
    \E k \in DOMAIN contentType : contentType[k] = "application/json"

\* Before createRequest()
NoRequest ==
    [created |-> FALSE, queryString |-> <<>>, contentType |-> <<>>,
     bodyBuffer |-> Null,
     parsedQuery |-> NullValue, parsedBody |-> UndefinedValue,
     bodyParsed |-> FALSE,
     allocated |-> 0, queryParses |-> 0, bodyParses |-> 0, reads |-> <<>>]

\* A read of a property and how it ended, for the history; parsed tells
\* whether the read computed the value (parseQueryString was called, the
\* block under `if (!bodyParsed)` was run) or took it from the closure
Read(prop, r, parsed) ==
    [prop |-> prop, threw |-> r.threw, value |-> r.value, parsed |-> parsed]

\* createRequest(uReq, uRes, params, bodyBuffer) (request.js 28-40): the
\* query string and the content-type header are taken from uReq
CreateRequest(queryString, contentType, bodyBuffer) ==
    /\ ~req.created
    /\ req' = [NoRequest EXCEPT !.created = TRUE,
                                !.queryString = queryString,
                                !.contentType = contentType,
                                !.bodyBuffer = bodyBuffer]
    /\ UNCHANGED <<routerVars, execVars, chainVars, findVars>>

\* get query() (request.js 68-74)
ReadQuery ==
    /\ req.created
    /\ Len(req.reads) < MaxReads
    /\ IF req.parsedQuery = NullValue
       THEN LET r == parseQueryString(req.queryString, req.allocated + 1)
            IN  IF r.threw # "none"
                THEN req' = [req EXCEPT !.queryParses = @ + 1,
                                        !.reads = Append(@, Read("query", r, TRUE))]
                ELSE req' = [req EXCEPT !.queryParses = @ + 1,
                                        !.allocated = @ + 1,
                                        !.parsedQuery = r.value,
                                        !.reads = Append(@, Read("query", r, TRUE))]
       ELSE req' = [req EXCEPT
                      !.reads = Append(@, Read("query", Returned(req.parsedQuery), FALSE))]
    /\ UNCHANGED <<routerVars, execVars, chainVars, findVars>>

\* get body() (request.js 82-101)
ReadBody ==
    /\ req.created
    /\ Len(req.reads) < MaxReads
    /\ IF ~req.bodyParsed
       THEN IF req.bodyBuffer # Null /\ Len(req.bodyBuffer) > 0
            THEN IF IncludesJson(req.contentType)
                 THEN LET r == JSONparse(req.bodyBuffer, req.allocated + 1)
                      IN  IF r.threw # "none"
                          THEN req' = [req EXCEPT
                                         !.bodyParsed = TRUE,
                                         !.bodyParses = @ + 1,
                                         !.reads = Append(@, Read("body", Thrown("BodyParseError"), TRUE))]
                          ELSE req' = [req EXCEPT
                                         !.bodyParsed = TRUE,
                                         !.bodyParses = @ + 1,
                                         !.allocated = IF r.value.t = "object"
                                                       THEN @ + 1 ELSE @,
                                         !.parsedBody = r.value,
                                         !.reads = Append(@, Read("body", r, TRUE))]
                 ELSE req' = [req EXCEPT
                                !.bodyParsed = TRUE,
                                !.bodyParses = @ + 1,
                                !.parsedBody = StringValue(req.bodyBuffer),
                                !.reads = Append(@, Read("body",
                                             Returned(StringValue(req.bodyBuffer)), TRUE))]
            ELSE req' = [req EXCEPT
                           !.bodyParsed = TRUE,
                           !.bodyParses = @ + 1,
                           !.parsedBody = UndefinedValue,
                           !.reads = Append(@, Read("body", Returned(UndefinedValue), TRUE))]
       ELSE req' = [req EXCEPT
                      !.reads = Append(@, Read("body", Returned(req.parsedBody), FALSE))]
    /\ UNCHANGED <<routerVars, execVars, chainVars, findVars>>

----------------------------------------------------------------------------
(* Inputs *)

GET == <<"G", "E", "T">>
get == <<"g", "e", "t">>
POST == <<"P", "O", "S", "T">>

Methods == {GET, get, POST}

AddPaths ==
    { <<"/">>,
      <<"/", "a">>,
      <<"/", "a", "/">>,
      <<"/", "a", "a">>,
      <<"/", "a", "/", "a", "a">>,
      <<"/", "a", "/", "a", "b">>,
      <<"/", "a", "a", "/", "b">>,
      <<"/", "a", "a", "/", ":", "a">>,
      <<"/", "a", "a", "/", ":", "b">>,
      <<"/", "a", "a", "/", "*">>,
      <<"/", "a", "a", "/", ":">>,
      <<"/", "a", "/", "*", "/", "a">>,
      <<"a">>,
      <<"/", ":", "a">>,
      <<"/", ":", "b", "/", ":">>,
      <<"/", ":", "a", "/", ":", "a">> }

\* The fully static patterns among them
StaticPaths ==
    { p \in AddPaths : p[1] = "/" /\ ~Includes(p, ":") /\ ~Includes(p, "*") }

\* Request paths handed to find(): every pattern read as a path, and
\* instances of the patterns with trailing slashes, parameter values,
\* wildcard remainders and shared prefixes.
RequestPaths ==
    AddPaths \cup
    { <<"/", "a", "a", "/">>,
      <<"/", "a", "/", "a">>,
      <<"/", "a", "/", "a", "a", "/">>,
      <<"/", "a", "a", "/", "b", "/">>,
      <<"/", "a", "a", "/", "a">>,
      <<"/", "a", "a", "/", "a", "/", "b">>,
      <<"/", "b">>,
      <<"/", "b", "/", "a">> }

MwLists == { <<>> }

\* Paths handed to chain.add(): null, the empty string, the root, with and
\* without the leading slash, with one and with two trailing slashes, and
\* a prefix that continues another inside a segment
LayerPaths ==
    { Null,
      <<>>,
      <<"/">>,
      <<"a">>,
      <<"/", "a">>,
      <<"/", "a", "/">>,
      <<"/", "a", "/", "/">>,
      <<"/", "a", "b">> }

\* Middleware functions
Fns == {"f", "g"}

\* Request paths handed to chain.resolve()
ResolvePaths ==
    { <<"/">>,
      <<"/", "a">>,
      <<"/", "a", "/">>,
      <<"/", "a", "b">>,
      <<"/", "a", "/", "b">>,
      <<"/", "a", "b", "/", "a">>,
      <<"/", "b">> }

\* Query strings of a request: none, one pair, a key with no value next
\* to a pair, an escaped space, and a '%' that is no escape
QueryStrings ==
    { <<>>,
      <<"a", "=", "1">>,
      <<"a", "&", "b", "=", "1">>,
      <<"a", "=", "%", "2", "0">>,
      <<"a", "=", "%">> }

\* Values of the content-type header: absent, JSON, JSON with a charset,
\* plain text
ContentTypes ==
    { <<>>,
      <<"application/json">>,
      <<"application/json", "; charset=utf-8">>,
      <<"text/plain">> }

\* Body buffers: null, empty, JSON texts, and texts that are no JSON
BodyBuffers ==
    { Null,
      <<>>,
      <<"{", "}">>,
      <<"1">>,
      <<"n", "u", "l", "l">>,
      <<"{">>,
      <<"a">> }

\* Route-level middleware lists handed to chain.resolve()
RouteMiddlewareLists == { <<>>, <<"r">>, <<"r", "f">> }

----------------------------------------------------------------------------
(* The router as a state machine *)

Init ==
    /\ nodes = <<RadixNode(<<>>)>>
    /\ staticRoutes = [k \in {} |-> 0]
    /\ calls = <<>>
    /\ exec = [e \in Execs |-> NotStarted]
    /\ stack = <<>>
    /\ entry = "none"
    /\ layers = <<>>
    /\ finds = <<>>
    /\ req = NoRequest

\* router.add(method, path, middleware, handler); every call passes a
\* handler function of its own, named by the call's number.
Add(method, path, middleware) ==
    /\ Len(calls) < MaxAdds
    /\ LET handler == Len(calls) + 1
           r == add(nodes, staticRoutes, method, path, middleware, handler)
       IN  /\ nodes' = r.nodes
           /\ staticRoutes' = r.staticRoutes
           /\ calls' = Append(calls, [method |-> method, path |-> path,
                                      middleware |-> middleware,
                                      handler |-> handler,
                                      outcome |-> r.outcome])
    /\ UNCHANGED <<execVars, chainVars, findVars, reqVars>>

Next == \E m \in Methods, p \in AddPaths, mw \in MwLists : Add(m, p, mw)

Spec == Init /\ [][Next]_vars

\* Registrations of fully static routes only
NextStatic == \E m \in Methods, p \in StaticPaths, mw \in MwLists : Add(m, p, mw)

SpecStatic == Init /\ [][NextStatic]_vars

\* Registrations over a few patterns of each kind: static ones that share
\* a prefix, two that differ in a parameter's name and one with a wildcard
MixedPaths ==
    { <<"/", "a">>,
      <<"/", "a", "a", "/", "b">>,
      <<"/", "a", "a", "/", ":", "a">>,
      <<"/", "a", "a", "/", ":", "b">>,
      <<"/", "a", "a", "/", "*">> }

NextMixed == \E m \in Methods, p \in MixedPaths, mw \in MwLists : Add(m, p, mw)

SpecMixed == Init /\ [][NextMixed]_vars

\* Routers whose patterns repeat a parameter name at two depths, next to a
\* wildcard and static routes at the same positions
ParamPaths ==
    { <<"/", "a">>,
      <<"/", "a", "/", "a">>,
      <<"/", ":", "a">>,
      <<"/", ":", "a", "/", ":", "a">>,
      <<"/", ":", "a", "/", "*">> }

NextParams == \E m \in Methods, p \in ParamPaths, mw \in MwLists : Add(m, p, mw)

SpecParams == Init /\ [][NextParams]_vars

\* A cache that find() fills with what the tree walk found
CacheFilled(cache, key, result) ==
    IF result.isNull THEN cache
    ELSE MapSet(cache, key, [handler |-> result.handler,
                             middleware |-> result.middleware])

\* The cache after find(): staticRoutes.get() is the only thing find()
\* does with it (router.js 207-208)
CacheRead(cache, key, result) == cache

\* router.find(method, path): the tree and the cache are only read
Lookup(method, path) ==
    /\ Len(finds) < MaxFinds
    /\ LET result == find(nodes, staticRoutes, method, path)
       IN  /\ finds' = Append(finds, [method |-> method, path |-> path,
                                      result |-> result, adds |-> Len(calls)])
           /\ staticRoutes' = CacheRead(staticRoutes,
                                        StaticKey(ToUpperCase(method), path), result)
    /\ UNCHANGED <<nodes, calls, execVars, chainVars, reqVars>>

\* Request paths looked up between registrations: one that a static, a
\* parameter and a wildcard pattern of MixedPaths all match, and one that
\* only a static pattern matches
LookupPaths ==
    { <<"/", "a", "a", "/", "b">>,
      <<"/", "a">> }

\* Registrations and lookups under one method, in any order
NextFind ==
    \/ \E p \in MixedPaths, mw \in MwLists : Add(GET, p, mw)
    \/ \E q \in LookupPaths : Lookup(GET, q)

SpecFind == Init /\ [][NextFind]_vars

\* Route-level middleware lists handed to add(): none, and the same two
\* functions in either order
AddMwLists == { <<>>, <<"f", "g">>, <<"g", "f">> }

\* Registrations with route-level middleware
NextMw == \E p \in MixedPaths, mw \in AddMwLists : Add(GET, p, mw)

SpecMw == Init /\ [][NextMw]_vars

\* One request object and the reads of its query and body
NextRequest ==
    \/ \E q \in QueryStrings, ct \in ContentTypes, b \in BodyBuffers :
          CreateRequest(q, ct, b)
    \/ ReadQuery
    \/ ReadBody

SpecRequest == Init /\ [][NextRequest]_vars

\* One execute() call, its middleware, handler and error handler
NextExec ==
    \/ \E n \in 0..MaxFns : Execute(1, n)
    \/ \E err \in NextArgs : CallNext(err)
    \/ \E i \in 0..(MaxFns - 1), err \in NextArgs : CallNextLater(1, i, err)
    \/ Send
    \/ Return
    \/ ReturnPromise
    \/ \E v \in ThrowValues : Throw(v)
    \/ \E v \in ThrowValues : RejectMw(1, v)
    \/ \E v \in ThrowValues : RejectHandler(1, v)
    \/ Fulfil(1)

SpecExec == Init /\ [][NextExec]_vars

\* Two requests on one MiddlewareChain: execute() is called once for each,
\* their middleware suspend (return without calling next) and resume from
\* the event loop in any order. RunsOf(e) are the steps of execution e.
RunsOf(e) ==
    \/ \E n \in 0..MaxFns : Execute(e, n)
    \/ \E i \in 0..(MaxFns - 1), err \in NextArgs : CallNextLater(e, i, err)
    \/ stack # <<>> /\ Top.e = e /\ \E err \in NextArgs : CallNext(err)
    \/ stack # <<>> /\ Top.e = e /\ Send
    \/ stack # <<>> /\ Top.e = e /\ Return

NextInterleaved == \E e \in Execs : RunsOf(e)

SpecInterleaved == Init /\ [][NextInterleaved]_vars

\* Layers added to one middleware chain
NextLayers == \E path \in LayerPaths, fn \in Fns : Use(path, fn)

SpecLayers == Init /\ [][NextLayers]_vars

----------------------------------------------------------------------------
(* What the registrations mean, segment by segment: the reading of the     *)
(* patterns that the claims below compare find() with.                     *)

OkCalls == { i \in DOMAIN calls : calls[i].outcome = "ok" }

RequestMethods == { ToUpperCase(m) : m \in Methods }

IsStaticPattern(p) == ~Includes(p, ":") /\ ~Includes(p, "*")

IsParamSegment(seg) == seg[1] = ":"

IsWildcardPattern(p) ==
    LET segs == _splitPath(p) IN segs # <<>> /\ segs[Len(segs)] = <<"*">>

IsParamPattern(p) ==
    /\ ~IsWildcardPattern(p)
    /\ \E k \in DOMAIN _splitPath(p) : IsParamSegment(_splitPath(p)[k])

\* A pattern's segments against a request's segments: a static segment
\* equals a whole request segment, a parameter takes exactly one segment,
\* a trailing wildcard takes the one or more segments that remain.
RECURSIVE SegmentsMatch(_, _)
SegmentsMatch(ps, qs) ==
    IF ps = <<>> THEN qs = <<>>
    ELSE IF ps[1] = <<"*">> THEN Len(ps) = 1 /\ Len(qs) >= 1
    ELSE /\ qs # <<>>
         /\ (IsParamSegment(ps[1]) \/ ps[1] = qs[1])
         /\ SegmentsMatch(Tail(ps), Tail(qs))

PatternMatches(pattern, path) ==
    SegmentsMatch(_splitPath(pattern), _splitPath(path))

\* The successful registrations for a method whose pattern matches a path
Matching(method, path) ==
    { i \in OkCalls : /\ ToUpperCase(calls[i].method) = ToUpperCase(method)
                      /\ PatternMatches(calls[i].path, path) }

SameRoute(i, j) ==
    /\ ToUpperCase(calls[i].method) = ToUpperCase(calls[j].method)
    /\ calls[i].path = calls[j].path

\* find() answers with the handler of registration i
Returns(method, path, i) ==
    LET r == Find(method, path)
    IN  ~r.isNull /\ r.handler = calls[i].handler

----------------------------------------------------------------------------
\* C1: after add() calls that register only fully static paths with
\* pairwise distinct (upper-cased method, path), find(method, path)
\* returns for every registered pair a non-null result whose handler is
\* the one passed to that pair's add(). Checked under SpecStatic.
C1_StaticRoutesFound ==
    (/\ \A i \in DOMAIN calls : IsStaticPattern(calls[i].path)
     /\ \A i, j \in DOMAIN calls : i # j => ~SameRoute(i, j))
    => \A i \in OkCalls : Returns(calls[i].method, calls[i].path, i)

\* Three static routes of one method are registered, two of them on an
\* edge that was split, and each is found.
C1_Witness ==
    /\ Len(calls) = 3
    /\ OkCalls = {1, 2, 3}
    /\ \A i, j \in DOMAIN calls : i # j => ~SameRoute(i, j)
    /\ \E i, j \in OkCalls :
          /\ calls[i].path = <<"/", "a", "/", "a", "b">>
          /\ calls[j].path = <<"/", "a", "/", "a", "a">>
          /\ ToUpperCase(calls[i].method) = ToUpperCase(calls[j].method)
          /\ Returns(calls[i].method, calls[i].path, i)
          /\ Returns(calls[j].method, calls[j].path, j)

----------------------------------------------------------------------------
\* C2: if add(method, path) succeeded earlier, a later add() with the same
\* upper-cased method and the same path throws RouteConflictError, and
\* afterwards find(method, path) still returns the handler of the first
\* registration. The state is the one right after the later add(); the
\* path is read as a request where no other registered route of the
\* method matches it too.
C2_DuplicateRejectedFirstKept ==
    \A i \in OkCalls :
        LET j == Len(calls) IN
        (i < j /\ SameRoute(i, j)) =>
            /\ calls[j].outcome = "RouteConflictError"
            /\ (Matching(calls[i].method, calls[i].path) = {i}
                  => Returns(calls[i].method, calls[i].path, i))

----------------------------------------------------------------------------
\* C3: matching precedence is static > parametric > wildcard, whatever the
\* registration order. (a) When a static route and a parametric or
\* wildcard route of the same method both match a request path, find()
\* returns a static route's handler. (b) When no static route matches and
\* a parametric and a wildcard route that part at their last segment both
\* match, find() returns a parametric route's handler.
C3_Precedence ==
    \A m \in RequestMethods, q \in RequestPaths :
        LET all == Matching(m, q)
            S == { i \in all : IsStaticPattern(calls[i].path) }
            P == { i \in all : IsParamPattern(calls[i].path) }
            W == { i \in all : IsWildcardPattern(calls[i].path) }
            SameParent(i, j) ==
                LET a == _splitPath(calls[i].path)
                    b == _splitPath(calls[j].path)
                IN  Len(a) = Len(b) /\ SubSeq(a, 1, Len(a) - 1) = SubSeq(b, 1, Len(b) - 1)
        IN  /\ (S # {} /\ (P \cup W) # {}) => \E i \in S : Returns(m, q, i)
            /\ (S = {} /\ \E i \in P, j \in W : SameParent(i, j))
                  => \E i \in P : Returns(m, q, i)

----------------------------------------------------------------------------
\* The bindings a pattern gives a request: each parameter name bound to the
\* request segment at its position.
Binds(pattern, path, params) ==
    LET ps == _splitPath(pattern)
        qs == _splitPath(path)
        at == { k \in DOMAIN ps : IsParamSegment(ps[k]) }
    IN  /\ DOMAIN params = { Slice(ps[k], 1) : k \in at }
        /\ \A k \in at : params[Slice(ps[k], 1)] = qs[k]

DistinctNames(pattern) ==
    LET ps == _splitPath(pattern)
    IN  \A k, l \in DOMAIN ps :
            (k # l /\ IsParamSegment(ps[k]) /\ IsParamSegment(ps[l])) => ps[k] # ps[l]

\* C4: for a registered route with ':name' segments (names distinct),
\* find() with a path that has the same static segments and any segment in
\* each parameter position returns that route's handler, with params
\* mapping each name to the raw request segment at its position. Stated
\* for the paths that no other registered route of the method matches.
C4_ParamRouteMatches ==
    \A i \in OkCalls, q \in RequestPaths :
        (/\ IsParamPattern(calls[i].path)
         /\ DistinctNames(calls[i].path)
         /\ Matching(calls[i].method, q) = {i})
        => /\ Returns(calls[i].method, q, i)
           /\ Binds(calls[i].path, q, Find(calls[i].method, q).params)

----------------------------------------------------------------------------
\* C5: for a registered route ending in '*', find() with a path that has
\* one or more segments after the wildcard's prefix returns that route's
\* handler with params['*'] equal to the remaining segments joined by '/'.
\* Stated for the paths that no other registered route of the method
\* matches.
C5_WildcardRouteMatches ==
    \A i \in OkCalls, q \in RequestPaths :
        (/\ IsWildcardPattern(calls[i].path)
         /\ Matching(calls[i].method, q) = {i})
        => LET r == Find(calls[i].method, q)
               n == Len(_splitPath(calls[i].path))
               qs == _splitPath(q)
           IN  /\ Returns(calls[i].method, q, i)
               /\ <<"*">> \in DOMAIN r.params
               /\ r.params[<<"*">>] = JoinSlash(SubSeq(qs, n, Len(qs)))

----------------------------------------------------------------------------
\* A path add() must reject as malformed
Malformed(path) ==
    LET segs == _splitPath(path)
    IN  \/ path[1] # "/"
        \/ \E k \in DOMAIN segs : segs[k] = <<":">>
        \/ \E k \in DOMAIN segs : segs[k] = <<"*">> /\ k # Len(segs)

\* The handler of call i is stored in the tree or in the cache
Stored(i) ==
    \/ \E n \in DOMAIN nodes : \E m \in DOMAIN nodes[n].handlers :
           nodes[n].handlers[m].handler = calls[i].handler
    \/ \E k \in DOMAIN staticRoutes : staticRoutes[k].handler = calls[i].handler

\* C6: add() throws InvalidRouteError when the path does not start with
\* '/', when a segment is exactly ':', or when a '*' segment is not the
\* last one; no route is registered by such a call.
C6_MalformedRejected ==
    \A i \in DOMAIN calls :
        Malformed(calls[i].path) =>
            calls[i].outcome = "InvalidRouteError" /\ ~Stored(i)

----------------------------------------------------------------------------
\* C7: a failed registration leaves no visible mutation: whenever add()
\* throws, find() returns for every (method, path) the same result after
\* the call as before it.
C7_FailedAddInvisible ==
    [][ calls'[Len(calls')].outcome # "ok" =>
          \A m \in RequestMethods, q \in RequestPaths :
              find(nodes', staticRoutes', m, q) = find(nodes, staticRoutes, m, q)
      ]_vars

----------------------------------------------------------------------------
\* C8: the static cache always agrees with the tree: for every key
\* (method, path) of staticRoutes, the full tree walk over the path's
\* segments returns the handler and middleware of the cache entry.
C8_CacheAgreesWithTree ==
    \A m \in RequestMethods, q \in RequestPaths :
        StaticKey(m, q) \in DOMAIN staticRoutes =>
            LET t == TreeFind(nodes, m, q)
                e == staticRoutes[StaticKey(m, q)]
            IN  /\ ~t.isNull
                /\ t.handler = e.handler
                /\ t.middleware = e.middleware

----------------------------------------------------------------------------
\* q is only the prefix that the last segments of two patterns share
SharedPrefixOf(q, p1, p2) ==
    LET a == _splitPath(p1)
        b == _splitPath(p2)
        c == _splitPath(q)
        n == Len(c)
    IN  /\ n >= 1 /\ Len(a) = n /\ Len(b) = n
        /\ SubSeq(a, 1, n - 1) = SubSeq(c, 1, n - 1)
        /\ SubSeq(b, 1, n - 1) = SubSeq(c, 1, n - 1)
        /\ a[n] # b[n]
        /\ Len(c[n]) = _commonPrefixLength(a[n], b[n])
        /\ c[n] = SliceTo(a[n], Len(c[n]))
        /\ Len(c[n]) < Len(a[n]) /\ Len(c[n]) < Len(b[n])

\* C9: when static routes whose segments share a character prefix are
\* registered, in any order, find() returns for each registered path its
\* own handler, and find() for a path that is only the shared prefix and
\* was never registered (no add() was called with a path of the same
\* segments) returns no match. Checked under SpecStatic.
C9_SharedPrefixRoutes ==
    /\ \A i \in OkCalls : Returns(calls[i].method, calls[i].path, i)
    /\ \A m \in RequestMethods, q \in RequestPaths :
          (/\ \E i, j \in OkCalls :
                 /\ ToUpperCase(calls[i].method) = m
                 /\ ToUpperCase(calls[j].method) = m
                 /\ SharedPrefixOf(q, calls[i].path, calls[j].path)
           /\ \A k \in DOMAIN calls : _splitPath(calls[k].path) # _splitPath(q))
          => Find(m, q).isNull

----------------------------------------------------------------------------
\* The invocations of a run in which each of the n middleware functions is
\* invoked once, in list order, and then the handler once
FullRun(n) ==
    [k \in 1..(n + 1) |-> IF k <= n THEN Invoked("fn", k - 1, Undefined)
                          ELSE Invoked("handler", 0, Undefined)]

\* Every middleware function of the list has called its continuation
\* exactly once, with no argument
EachCalledNextOnce(x) == \A i \in 1..x.n : x.nextArgs[i] = <<Undefined>>

\* C10 as stated: if the response is never sent and every middleware
\* function calls its continuation exactly once with no argument, the
\* invocations are the middleware in list order, each once, then the
\* handler once, and the error handler is never invoked.
C10_OrderlyRunAsStated ==
    \A e \in Execs :
        (exec[e].started /\ ~exec[e].sent /\ EachCalledNextOnce(exec[e]))
        => exec[e].log = FullRun(exec[e].n)

\* C10 amended: the same, provided also that no middleware function and
\* not the handler throws or returns a promise that rejects.
C10_OrderlyRun ==
    \A e \in Execs :
        (/\ exec[e].started /\ ~exec[e].sent /\ ~exec[e].faulted
         /\ EachCalledNextOnce(exec[e]))
        => exec[e].log = FullRun(exec[e].n)

\* A list of two middleware functions has run to its end: both called
\* next() once, the handler was invoked and everything has returned.
C10_Witness ==
    /\ exec[1].started /\ exec[1].n = 2
    /\ ~exec[1].sent /\ ~exec[1].faulted
    /\ EachCalledNextOnce(exec[1])
    /\ exec[1].log = FullRun(2)
    /\ stack = <<>>

----------------------------------------------------------------------------
\* The step invokes the error handler of execution e with v, and nothing else
ErrorHandlerInvokedWith(e, v) ==
    exec'[e].log = Append(exec[e].log, Invoked("errorHandler", 0, v))

\* The step invokes nothing in execution e
NothingInvoked(e) == exec'[e].log = exec[e].log

\* C11: when a middleware function throws a value v, whatever v is, or
\* calls its continuation with an error argument v, that step invokes the
\* error handler with v and invokes no middleware function and not the
\* handler.
C11_ErrorReachesErrorHandler ==
    [][ /\ \A v \in ThrowValues :
              (stack # <<>> /\ Top.f = "fn" /\ Throw(v))
              => ErrorHandlerInvokedWith(Top.e, v)
        /\ \A err \in NextArgs \ {Undefined} :
              CallNext(err) => ErrorHandlerInvokedWith(Top.e, err)
        /\ \A e \in Execs, i \in 0..(MaxFns - 1), err \in NextArgs \ {Undefined} :
              CallNextLater(e, i, err) => ErrorHandlerInvokedWith(e, err)
      ]_vars

----------------------------------------------------------------------------
\* C12: a call of the continuation with no error while res.sent is true
\* invokes nothing: no middleware function, not the handler, not the error
\* handler.
C12_SentStopsChain ==
    [][ /\ (stack # <<>> /\ exec[Top.e].sent /\ CallNext(Undefined))
              => (NothingInvoked(Top.e) /\ stack' = stack)
        /\ \A e \in Execs, i \in 0..(MaxFns - 1) :
              (exec[e].sent /\ CallNextLater(e, i, Undefined))
              => (NothingInvoked(e) /\ stack' = stack)
      ]_vars

\* The first of two middleware functions sent the response and then
\* called next(): the second one was never invoked (had the response not
\* been sent at the call, it would have been).
C12_Witness ==
    /\ exec[1].started /\ exec[1].n = 2
    /\ exec[1].sent /\ ~exec[1].faulted
    /\ exec[1].nextArgs = << <<Undefined>>, <<>> >>
    /\ exec[1].log = <<Invoked("fn", 0, Undefined)>>
    /\ stack = <<>>

----------------------------------------------------------------------------
\* How many times f was invoked in execution x
TimesInvoked(x, f) == Cardinality({ k \in DOMAIN x.log : x.log[k].f = f })

\* Nothing of execution x is running or pending, and every middleware
\* function that was invoked has called its continuation or has thrown or
\* rejected
RunIsOver(x) ==
    /\ x.started
    /\ \A k \in DOMAIN stack : exec[stack[k].e] # x
    /\ x.pendingMw = 0 /\ x.pendingHandler = 0
    /\ x.faulted \/ \A i \in 1..x.idx : x.nextArgs[i] # <<>>

\* C13: in every execution the handler and the error handler are invoked
\* at most once together (never both, neither of them twice), and when
\* the run is over and the response was not sent by then, exactly one of
\* them was invoked.
C13_ExactlyOneTerminal ==
    \A e \in Execs :
        LET both == TimesInvoked(exec[e], "handler")
                    + TimesInvoked(exec[e], "errorHandler")
        IN  /\ both <= 1
            /\ (RunIsOver(exec[e]) /\ ~exec[e].sent) => both = 1

----------------------------------------------------------------------------
\* C14: no exception leaves execute(), a call of the continuation or a
\* rejection callback: whatever a middleware function, the handler or the
\* error handler throws is caught inside.
C14_NothingEscapes == \A e \in Execs : exec[e].escapes = {}

----------------------------------------------------------------------------
\* C15: when the promise returned by a middleware function or by the
\* handler rejects with v, whatever v is, that step invokes the error
\* handler with v and nothing else; when a returned promise fulfils,
\* nothing is invoked.
C15_RejectionReachesErrorHandler ==
    [][ \A e \in Execs :
          /\ \A v \in ThrowValues :
                (RejectMw(e, v) \/ RejectHandler(e, v))
                => ErrorHandlerInvokedWith(e, v)
          /\ Fulfil(e) => (NothingInvoked(e) /\ stack' = stack)
      ]_vars

----------------------------------------------------------------------------
\* The prefix P matches the request path q: q is P, or q goes on after P
\* with a '/'
PrefixMatches(P, q) ==
    \/ q = P
    \/ /\ Len(q) > Len(P)
       /\ \A k \in 1..Len(P) : q[k] = P[k]
       /\ q[Len(P) + 1] = "/"

\* The functions of a list of layers, in the order of the list
FnsOf(ls) == [k \in DOMAIN ls |-> ls[k].fn]

\* The layers that apply to q: the global ones and the scoped ones whose
\* prefix matches, in registration order
ApplicableLayers(q) ==
    LET Applies(layer) == layer.path = Null \/ PrefixMatches(layer.path, q)
    IN  SelectSeq(layers, Applies)

\* C16: resolve(requestPath, routeMiddleware) is the functions of the
\* applicable layers (global, or scoped with a matching prefix) in
\* registration order, followed by routeMiddleware as given, and nothing
\* else.
C16_ResolveInRegistrationOrder ==
    \A q \in ResolvePaths, rm \in RouteMiddlewareLists :
        resolve(layers, q, rm) = FnsOf(ApplicableLayers(q)) \o rm

\* A global layer f, then a layer g scoped to '/a': '/a/b' with route
\* middleware r resolves to f, g, r, and '/b' to f, r.
C16_Witness ==
    /\ Len(layers) >= 2
    /\ layers[1] = [path |-> Null, fn |-> "f"]
    /\ layers[2] = [path |-> <<"/", "a">>, fn |-> "g"]
    /\ resolve(SubSeq(layers, 1, 2), <<"/", "a", "/", "b">>, <<"r">>) = <<"f", "g", "r">>
    /\ resolve(SubSeq(layers, 1, 2), <<"/", "b">>, <<"r">>) = <<"f", "r">>

----------------------------------------------------------------------------
\* The function of layer k is the function of no other layer
OnlyLayerOf(k) == \A l \in DOMAIN layers : layers[l].fn = layers[k].fn => l = k

\* The function fn is in the list fns
Contains(fns, fn) == \E k \in DOMAIN fns : fns[k] = fn

\* C17: resolve() includes a scoped layer with stored prefix P if and
\* only if requestPath equals P or starts with P followed by '/'. Read off
\* the result for the layers whose function no other layer has.
C17_ScopedLayerIffPrefix ==
    \A k \in DOMAIN layers, q \in ResolvePaths :
        (layers[k].path # Null /\ OnlyLayerOf(k))
        => (Contains(resolve(layers, q, <<>>), layers[k].fn)
            <=> PrefixMatches(layers[k].path, q))

\* A layer scoped to '/a' whose function no other layer has: it is
\* resolved for '/a' and for '/a/b', and not for '/ab'; and a layer
\* scoped to '/', resolved for '/' and not for '/b'.
C17_Witness ==
    \E k, l \in DOMAIN layers :
        /\ layers[k].path = <<"/", "a">> /\ OnlyLayerOf(k)
        /\ layers[l].path = <<"/">> /\ OnlyLayerOf(l)
        /\ Contains(resolve(layers, <<"/", "a">>, <<>>), layers[k].fn)
        /\ Contains(resolve(layers, <<"/", "a", "/", "b">>, <<>>), layers[k].fn)
        /\ ~Contains(resolve(layers, <<"/", "a", "b">>, <<>>), layers[k].fn)
        /\ Contains(resolve(layers, <<"/">>, <<>>), layers[l].fn)
        /\ ~Contains(resolve(layers, <<"/", "b">>, <<>>), layers[l].fn)

----------------------------------------------------------------------------
\* C18: chain.add(path, fn) appends one layer with the function fn and
\* leaves the earlier layers as they were; for a null path the stored
\* prefix is null, and for any string it is a string that starts with
\* '/' and does not end with '/' unless it is exactly '/'.
C18_AddNormalisesPrefix ==
    [][ \A path \in LayerPaths, fn \in Fns :
          Use(path, fn) =>
            LET stored == layers'[Len(layers')]
            IN  /\ Len(layers') = Len(layers) + 1
                /\ SubSeq(layers', 1, Len(layers)) = layers
                /\ stored.fn = fn
                /\ path = Null => stored.path = Null
                /\ path # Null =>
                      /\ stored.path # Null
                      /\ stored.path # <<>>
                      /\ stored.path[1] = "/"
                      /\ stored.path[Len(stored.path)] = "/" => stored.path = <<"/">>
      ]_vars

----------------------------------------------------------------------------
\* The lower-case and upper-case form of a letter of the method names
LetterCases ==
    { {"g", "G"}, {"e", "E"}, {"t", "T"}, {"p", "P"}, {"o", "O"}, {"s", "S"} }

\* Two method names that differ in letter case at most
SameButCase(m1, m2) ==
    /\ Len(m1) = Len(m2)
    /\ \A k \in 1..Len(m1) : m1[k] = m2[k] \/ {m1[k], m2[k]} \in LetterCases

\* C19: method names are case-insensitive. find() returns the same
\* result for two methods that differ only in letter case; a static route
\* added under one spelling is found under every other spelling; and
\* adding a path again under another spelling of the method of a
\* successful registration throws RouteConflictError. Checked under
\* SpecMixed.
C19_MethodCaseInsensitive ==
    /\ \A m1, m2 \in Methods, q \in RequestPaths :
          SameButCase(m1, m2) => Find(m1, q) = Find(m2, q)
    /\ \A i \in OkCalls, m \in Methods :
          (SameButCase(calls[i].method, m) /\ IsStaticPattern(calls[i].path))
          => Returns(m, calls[i].path, i)
    /\ \A i \in OkCalls, j \in DOMAIN calls :
          (/\ i < j
           /\ SameButCase(calls[i].method, calls[j].method)
           /\ calls[i].path = calls[j].path)
          => calls[j].outcome = "RouteConflictError"

\* '/a' was added as 'get' and then again as 'GET': the second call threw
\* RouteConflictError, and find('GET', '/a') returns the handler of the
\* first.
C19_Witness ==
    /\ Len(calls) >= 2
    /\ calls[1].method = get /\ calls[1].path = <<"/", "a">>
    /\ calls[1].outcome = "ok"
    /\ calls[2].method = GET /\ calls[2].path = <<"/", "a">>
    /\ calls[2].outcome = "RouteConflictError"
    /\ Returns(GET, <<"/", "a">>, 1)
    /\ Returns(get, <<"/", "a">>, 1)

----------------------------------------------------------------------------
\* Calls i and j name the same method and the same sequence of segments
SameSegments(i, j) ==
    /\ ToUpperCase(calls[i].method) = ToUpperCase(calls[j].method)
    /\ _splitPath(calls[i].path) = _splitPath(calls[j].path)

\* C20: routes are kept per method. Adding a path that is registered
\* under another method succeeds (when no earlier call gave these
\* segments under the same method); find() returns for each of the
\* methods a path is registered under the handler of that method; and
\* find() returns no match for a method none of whose registered routes
\* matches the path.
C20_RoutesPerMethod ==
    /\ \A j \in DOMAIN calls :
          (/\ \E i \in OkCalls :
                 i < j /\ calls[i].path = calls[j].path /\ ~SameRoute(i, j)
           /\ \A i \in DOMAIN calls : i < j => ~SameSegments(i, j))
          => calls[j].outcome = "ok"
    /\ \A i, j \in OkCalls :
          (calls[i].path = calls[j].path /\ ~SameRoute(i, j))
          => /\ Returns(calls[i].method, calls[i].path, i)
             /\ Returns(calls[j].method, calls[j].path, j)
    /\ \A m \in RequestMethods, q \in RequestPaths :
          Matching(m, q) = {} => Find(m, q).isNull

----------------------------------------------------------------------------
\* The nodes that are parameter nodes, and those that are wildcard nodes
ParamNodes == { n \in DOMAIN nodes : nodes[n].paramName # <<>> }

WildcardNodes == { n \in DOMAIN nodes : nodes[n].isWildcard }

\* A node's parameter child is a parameter node and its wildcard child a
\* wildcard node; every parameter node is the parameter child of exactly
\* one node, every wildcard node the wildcard child of exactly one node,
\* and neither kind is among the static children of any node.
OneParamOneWildcardChild ==
    /\ \A n \in DOMAIN nodes :
          /\ nodes[n].paramChild # 0 => nodes[n].paramChild \in ParamNodes
          /\ nodes[n].wildcardChild # 0 => nodes[n].wildcardChild \in WildcardNodes
          /\ \A k \in DOMAIN nodes[n].children :
                nodes[n].children[k] \notin ParamNodes \cup WildcardNodes
    /\ \A c \in ParamNodes :
          Cardinality({ n \in DOMAIN nodes : nodes[n].paramChild = c }) = 1
    /\ \A c \in WildcardNodes :
          Cardinality({ n \in DOMAIN nodes : nodes[n].wildcardChild = c }) = 1

\* The call of add() made by this step, when the step is one
ThisCall == calls'[Len(calls')]

\* For the call made by this step: wherever the walk stands, before a
\* segment ':name', at a node that has a parameter child, the call throws
\* RouteConflictError if the child's name is not name, and otherwise the
\* walk moves to that child without creating a node.
ParamChildConflictOrReuse ==
    Len(calls') = Len(calls) + 1 =>
      LET segs == _splitPath(ThisCall.path)
      IN  \A k \in DOMAIN segs :
            LET before == AddWalk(nodes, root, SubSeq(segs, 1, k - 1), 1)
                child == before.nodes[before.node].paramChild
            IN  (/\ ThisCall.path[1] = "/"
                 /\ IsParamSegment(segs[k]) /\ Len(segs[k]) > 1
                 /\ before.err = "none"
                 /\ child # 0)
                => IF before.nodes[child].paramName # Slice(segs[k], 1)
                   THEN ThisCall.outcome = "RouteConflictError"
                   ELSE AddWalk(nodes, root, SubSeq(segs, 1, k), 1)
                          = [nodes |-> before.nodes, node |-> child, err |-> "none"]

\* A call whose path agrees with an earlier successful call's up to a
\* parameter segment, and names that parameter differently, threw
\* RouteConflictError.
ParamNameConflictByPath ==
    \A i \in OkCalls, j \in DOMAIN calls :
        LET a == _splitPath(calls[i].path)
            b == _splitPath(calls[j].path)
        IN  \A k \in DOMAIN a :
              (/\ i < j /\ k \in DOMAIN b /\ calls[j].path[1] = "/"
               /\ SubSeq(a, 1, k - 1) = SubSeq(b, 1, k - 1)
               /\ IsParamSegment(a[k]) /\ IsParamSegment(b[k]) /\ Len(b[k]) > 1
               /\ a[k] # b[k])
              => calls[j].outcome = "RouteConflictError"

\* C21: add() with a segment ':name' at a tree position that already has
\* a parameter child of another name throws RouteConflictError, whatever
\* the methods; with the same name it goes on through the existing child;
\* and in every state each node has at most one parameter child and at
\* most one wildcard child. Checked under SpecMixed.
C21_OneParamNamePerPosition ==
    /\ []OneParamOneWildcardChild
    /\ []ParamNameConflictByPath
    /\ [][ParamChildConflictOrReuse]_vars

\* GET '/aa/:a' was added, then POST '/aa/:b' threw RouteConflictError,
\* then POST '/aa/:a' was added through the same parameter child.
C21_Witness ==
    /\ Len(calls) = 3
    /\ calls[1].method = GET /\ calls[1].path = <<"/", "a", "a", "/", ":", "a">>
    /\ calls[1].outcome = "ok"
    /\ calls[2].method = POST /\ calls[2].path = <<"/", "a", "a", "/", ":", "b">>
    /\ calls[2].outcome = "RouteConflictError"
    /\ calls[3].method = POST /\ calls[3].path = <<"/", "a", "a", "/", ":", "a">>
    /\ calls[3].outcome = "ok"
    /\ Cardinality(ParamNodes) = 1

----------------------------------------------------------------------------
----------------------------------------------------------------------------
\* C23: the error path is terminal. Once the error handler has been
\* invoked in an execution, no middleware function and not the handler is
\* invoked in it afterwards.
C23_ErrorPathTerminal ==
    \A e \in Execs : \A k, l \in DOMAIN exec[e].log :
        (k < l /\ exec[e].log[k].f = "errorHandler")
        => exec[e].log[l].f = "errorHandler"

----------------------------------------------------------------------------
\* C24: double invocation of a continuation is guarded. The handler is
\* invoked at most once in an execution, and a call of next() by a
\* middleware function that has called it before invokes nothing.
C24_DoubleNextGuarded ==
    /\ [](\A e \in Execs : TimesInvoked(exec[e], "handler") <= 1)
    /\ [][ /\ \A err \in NextArgs :
               (/\ stack # <<>> /\ Top.f = "fn"
                /\ exec[Top.e].nextArgs[Top.i + 1] # <<>>
                /\ CallNext(err))
               => NothingInvoked(Top.e)
           /\ \A e \in Execs, i \in 0..(MaxFns - 1), err \in NextArgs :
               (/\ exec[e].started /\ i < exec[e].idx
                /\ exec[e].nextArgs[i + 1] # <<>>
                /\ CallNextLater(e, i, err))
               => NothingInvoked(e)
         ]_vars

----------------------------------------------------------------------------
\* The middleware function at position i of execution x is not running
OffStack(e, i) ==
    \A k \in DOMAIN stack : ~(stack[k].e = e /\ stack[k].f = "fn" /\ stack[k].i = i)

\* C25: when the middleware function invoked last has returned without
\* calling its continuation, and nothing in the execution has thrown or
\* rejected, the chain stays suspended: nothing has been invoked after
\* that function.
C25_SuspendedWithoutNext ==
    \A e \in Execs :
        LET x == exec[e] IN
        (/\ x.started /\ x.idx >= 1
         /\ OffStack(e, x.idx - 1)
         /\ x.nextArgs[x.idx] = <<>>
         /\ ~x.faulted)
        => x.log[Len(x.log)] = Invoked("fn", x.idx - 1, Undefined)

----------------------------------------------------------------------------
\* C26: when the running handler throws v, whatever v is, that step
\* invokes the error handler once, with v, however many middleware
\* functions are on the stack below the handler.
C26_HandlerThrowReachesErrorHandler ==
    [][ \A v \in ThrowValues :
          (stack # <<>> /\ Top.f = "handler" /\ Throw(v))
          => /\ ErrorHandlerInvokedWith(Top.e, v)
             /\ stack' = Append(Pop, [e |-> Top.e, f |-> "errorHandler", i |-> 0])
      ]_vars

\* Two middleware functions called next() from inside one another, the
\* handler ran on top of both and threw 0: the error handler was invoked
\* with 0, once, and is running above the two functions.
C26_Witness ==
    /\ exec[1].n = 2
    /\ EachCalledNextOnce(exec[1])
    /\ exec[1].log = FullRun(2) \o <<Invoked("errorHandler", 0, "0")>>
    /\ Len(stack) = 3
    /\ stack[1].f = "fn" /\ stack[2].f = "fn" /\ stack[3].f = "errorHandler"

----------------------------------------------------------------------------
\* C27: whenever find() returns a match, the middleware of the result is
\* the sequence that was passed to the add() call of the matched route
\* (the call that passed the handler of the result), element for element,
\* for routes resolved through the cache and through the tree. Checked
\* under SpecMw.
C27_FindReturnsRouteMiddleware ==
    \A m \in RequestMethods, q \in RequestPaths :
        LET r == Find(m, q)
        IN  ~r.isNull =>
              \E i \in DOMAIN calls :
                  /\ calls[i].handler = r.handler
                  /\ calls[i].middleware = r.middleware

\* '/aa/:a' was added with middleware g, f and '/aa/b' with f, g: find()
\* returns f, g for '/aa/b' from the cache, and g, f for '/aa/a' from the
\* tree.
C27_Witness ==
    /\ Len(calls) >= 2
    /\ calls[1].path = <<"/", "a", "a", "/", ":", "a">>
    /\ calls[1].middleware = <<"g", "f">> /\ calls[1].outcome = "ok"
    /\ calls[2].path = <<"/", "a", "a", "/", "b">>
    /\ calls[2].middleware = <<"f", "g">> /\ calls[2].outcome = "ok"
    /\ StaticKey(GET, <<"/", "a", "a", "/", "b">>) \in DOMAIN staticRoutes
    /\ Returns(GET, <<"/", "a", "a", "/", "b">>, 2)
    /\ Find(GET, <<"/", "a", "a", "/", "b">>).middleware = <<"f", "g">>
    /\ StaticKey(GET, <<"/", "a", "a", "/", "a">>) \notin DOMAIN staticRoutes
    /\ Returns(GET, <<"/", "a", "a", "/", "a">>, 1)
    /\ Find(GET, <<"/", "a", "a", "/", "a">>).middleware = <<"g", "f">>

----------------------------------------------------------------------------
\* The body of the request is JSON by its content-type, is not empty and
\* is no valid JSON
InvalidJsonBody ==
    /\ req.created
    /\ IncludesJson(req.contentType)
    /\ req.bodyBuffer # Null /\ req.bodyBuffer # <<>>
    /\ JSONparse(req.bodyBuffer, 0).threw # "none"

\* C28: on a request whose content-type contains 'application/json' and
\* whose non-empty body is not valid JSON, every read of req.body throws
\* BodyParseError, the first one and every later one.
C28_InvalidJsonAlwaysThrows ==
    InvalidJsonBody =>
        \A k \in DOMAIN req.reads :
            req.reads[k].prop = "body" => req.reads[k].threw = "BodyParseError"

----------------------------------------------------------------------------
\* The reads of one property, in order
ReadsOf(prop) ==
    LET IsProp(r) == r.prop = prop IN SelectSeq(req.reads, IsProp)

\* C29: req.query and req.body are parsed lazily and at most once.
\* Nothing is parsed before the first read of a property; its first read
\* parses; no later read parses; and every later read returns the value
\* of the first, the same object when it is an object.
C29_ParsedLazilyOnce ==
    /\ ReadsOf("query") = <<>>
          => (req.queryParses = 0 /\ req.parsedQuery = NullValue)
    /\ ReadsOf("body") = <<>>
          => (req.bodyParses = 0 /\ ~req.bodyParsed)
    /\ req.queryParses <= 1 /\ req.bodyParses <= 1
    /\ \A prop \in {"query", "body"} :
          LET rs == ReadsOf(prop)
          IN  \A k \in DOMAIN rs :
                /\ rs[k].parsed <=> k = 1
                /\ (rs[1].threw = "none") =>
                      (rs[k].threw = "none" /\ rs[k].value = rs[1].value)

----------------------------------------------------------------------------
\* C30: a successfully registered route with a parameter or a wildcard
\* stays matchable. Across every later add(), successful or failing, a
\* request path that find() answered with the route's handler before the
\* call is answered with it after the call too, unless another registered
\* route matches the path after the call and may take precedence.
C30_PatternRouteStaysMatchable ==
    [][ Len(calls') = Len(calls) + 1 =>
          \A i \in OkCalls, q \in RequestPaths :
              (/\ IsParamPattern(calls[i].path) \/ IsWildcardPattern(calls[i].path)
               /\ Returns(calls[i].method, q, i)
               /\ (Matching(calls[i].method, q))' = {i})
              => (Returns(calls[i].method, q, i))' ]_vars

----------------------------------------------------------------------------
\* C31: find() has no phantom matches: it returns a non-null result only
\* if some successfully registered pattern of the method matches the
\* request path segment by segment; otherwise it returns null.
C31_NoPhantomMatch ==
    \A m \in RequestMethods, q \in RequestPaths :
        ~Find(m, q).isNull => Matching(m, q) # {}

----------------------------------------------------------------------------
\* Two labels have a non-empty common prefix: both are non-empty and start
\* with the same character
SharePrefix(a, b) == a # <<>> /\ b # <<>> /\ a[1] = b[1]

\* The labels of the static children of node n in a tree
ChildLabels(ns, n) == [k \in DOMAIN ns[n].children |-> ns[ns[n].children[k]].label]

SiblingsPrefixFree ==
    \A n \in DOMAIN nodes :
        LET ls == ChildLabels(nodes, n)
        IN  /\ \A k \in DOMAIN ls : ls[k] # <<>>
            /\ \A k, l \in DOMAIN ls : k # l => ~SharePrefix(ls[k], ls[l])

\* A node that existed before the call gets at most one more static child,
\* and only one whose label shares no prefix with the labels its children
\* had before the call
AppendsOnlyWithoutPrefix ==
    \A n \in DOMAIN nodes :
        LET old == ChildLabels(nodes, n)
            new == ChildLabels(nodes', n)
        IN  /\ Len(new) \in {Len(old), Len(old) + 1}
            /\ Len(new) = Len(old) + 1 =>
                  \A k \in DOMAIN old : ~SharePrefix(old[k], new[Len(new)])

\* C32: in every state reachable by add() calls, at every tree node no two
\* static children have labels with a non-empty common prefix and every
\* static child's label is non-empty; an add() appends a static child to a
\* node only when no child of the node shares a prefix with the new label.
C32_SiblingsPrefixFree ==
    /\ []SiblingsPrefixFree
    /\ [][AppendsOnlyWithoutPrefix]_vars

\* '/a/ab' and '/a/aa' are registered: the edge below 'a' was split into
\* 'a' with the children 'b' and 'a'
C32_Witness ==
    /\ Len(calls) = 2 /\ OkCalls = {1, 2}
    /\ calls[1].path = <<"/", "a", "/", "a", "b">>
    /\ calls[2].path = <<"/", "a", "/", "a", "a">>
    /\ \E n \in DOMAIN nodes :
          /\ nodes[n].label = <<"a">>
          /\ ChildLabels(nodes, n) = << <<"b">>, <<"a">> >>

----------------------------------------------------------------------------
\* Some branch of the tree below a node leads to a route of the method for
\* the segments from segIdx on: a static child labelled with the segment,
\* the parametric child, or the wildcard child
RECURSIVE TreeAccepts(_, _, _, _, _)
TreeAccepts(ns, node, segments, segIdx, method) ==
    IF segIdx = Len(segments) + 1 THEN method \in DOMAIN ns[node].handlers
    ELSE \/ \E k \in DOMAIN ns[node].children :
              /\ ns[ns[node].children[k]].label = segments[segIdx]
              /\ TreeAccepts(ns, ns[node].children[k], segments, segIdx + 1, method)
         \/ /\ ns[node].paramChild # 0
            /\ TreeAccepts(ns, ns[node].paramChild, segments, segIdx + 1, method)
         \/ /\ ns[node].wildcardChild # 0
            /\ method \in DOMAIN ns[ns[node].wildcardChild].handlers

\* Below some static child that matches the segment there is a route
StaticAccepts(ns, node, segments, segIdx, method) ==
    \E k \in DOMAIN ns[node].children :
        /\ ns[ns[node].children[k]].label = segments[segIdx]
        /\ TreeAccepts(ns, ns[node].children[k], segments, segIdx + 1, method)

\* C33: the search backtracks. Whenever some branch of the tree leads to a
\* route of the method for the request's segments, find() returns a route,
\* also when a static child matched a segment and the search below it
\* found nothing: the parametric child and then the wildcard child of the
\* node are tried. At every node where no static child leads to a route,
\* the search answers with the route below the parametric child if there
\* is one, else with the wildcard child's route if there is one, else null.
C33_SearchBacktracks ==
    \A m \in RequestMethods, q \in RequestPaths :
        LET segments == _splitPath(q) IN
        /\ TreeAccepts(nodes, root, segments, 1, m) => ~Find(m, q).isNull
        /\ \A node \in DOMAIN nodes, segIdx \in DOMAIN segments :
              LET r == _search(nodes, node, segments, segIdx, NoParams, m).result
                  pc == nodes[node].paramChild
                  wc == nodes[node].wildcardChild
              IN  ~StaticAccepts(nodes, node, segments, segIdx, m) =>
                    IF pc # 0 /\ TreeAccepts(nodes, pc, segments, segIdx + 1, m)
                    THEN /\ ~r.isNull
                         /\ r.handler =
                              _search(nodes, pc, segments, segIdx + 1,
                                      NoParams, m).result.handler
                    ELSE IF wc # 0 /\ m \in DOMAIN nodes[wc].handlers
                    THEN ~r.isNull /\ r.handler = nodes[wc].handlers[m].handler
                    ELSE r.isNull

\* '/aa/b' is registered for POST only, '/aa/:a' and '/aa/*' for GET:
\* below 'aa' the static child 'b' matches the request '/aa/b' and holds
\* no GET route, and find('GET', '/aa/b') answers with the parametric route
C33_Witness ==
    /\ Len(calls) = 3 /\ OkCalls = {1, 2, 3}
    /\ calls[1].method = POST /\ calls[1].path = <<"/", "a", "a", "/", "b">>
    /\ calls[2].method = GET /\ calls[2].path = <<"/", "a", "a", "/", "*">>
    /\ calls[3].method = GET /\ calls[3].path = <<"/", "a", "a", "/", ":", "a">>
    /\ StaticKey(GET, <<"/", "a", "a", "/", "b">>) \notin DOMAIN staticRoutes
    /\ Returns(GET, <<"/", "a", "a", "/", "b">>, 3)

----------------------------------------------------------------------------
\* params holds exactly the bindings of a pattern for a request: every
\* parameter name bound to the request segment at a position of the name,
\* '*' bound to the remaining segments of a wildcard pattern, nothing else
ExactBindings(pattern, path, params) ==
    LET ps == _splitPath(pattern)
        qs == _splitPath(path)
        at == { k \in DOMAIN ps : IsParamSegment(ps[k]) }
        star == IF IsWildcardPattern(pattern) THEN { <<"*">> } ELSE {}
    IN  /\ DOMAIN params = { Slice(ps[k], 1) : k \in at } \cup star
        /\ \A k \in at :
              \E l \in at : ps[l] = ps[k] /\ params[Slice(ps[k], 1)] = qs[l]
        /\ star # {} =>
              params[<<"*">>] = JoinSlash(SubSeq(qs, Len(ps), Len(qs)))

\* C34: the params of a match result are exactly the bindings of the
\* matched route: when find() returns the handler of a registered route
\* whose pattern matches the path, every parameter name of the pattern
\* (and '*' for a wildcard route) is bound to the request segment(s) at
\* its position and no other binding is present, also when a deeper
\* branch that bound the same name was tried and rolled back.
C34_ParamsAreTheBindings ==
    \A m \in RequestMethods, q \in RequestPaths :
        LET r == Find(m, q) IN
        \A i \in Matching(m, q) :
            (~r.isNull /\ r.handler = calls[i].handler)
            => ExactBindings(calls[i].path, q, r.params)

----------------------------------------------------------------------------
\* C35: matching depends only on the segment sequence of the request
\* path: two paths that split into the same sequence of non-empty
\* segments get the same answer from find() for the same method, null for
\* both or the same handler for both, through the cache or the tree.
C35_SameSegmentsSameAnswer ==
    \A m \in RequestMethods, q1, q2 \in RequestPaths :
        _splitPath(q1) = _splitPath(q2) =>
            LET r1 == Find(m, q1)
                r2 == Find(m, q2)
            IN  /\ r1.isNull <=> r2.isNull
                /\ ~r1.isNull => r1.handler = r2.handler

----------------------------------------------------------------------------
\* The pattern without its trailing '*' has the segments of the path
IsWildcardPrefix(pattern, path) ==
    LET ps == _splitPath(pattern)
    IN  _splitPath(path) = SubSeq(ps, 1, Len(ps) - 1)

\* C36: a wildcard route needs at least one remaining segment. When a
\* route ending in '*' is the only route registered for a method, find()
\* returns null for the path that stops where the '*' stands, with or
\* without a trailing slash.
C36_WildcardNeedsASegment ==
    \A i \in OkCalls, q \in RequestPaths :
        (/\ IsWildcardPattern(calls[i].path)
         /\ \A j \in OkCalls :
               ToUpperCase(calls[j].method) = ToUpperCase(calls[i].method) => j = i
         /\ IsWildcardPrefix(calls[i].path, q))
        => Find(calls[i].method, q).isNull

\* Only '/aa/*' is registered for GET: it is found for '/aa/a' and not for
\* '/aa' and '/aa/'
C36_Witness ==
    /\ Len(calls) >= 1
    /\ calls[1].method = GET /\ calls[1].path = <<"/", "a", "a", "/", "*">>
    /\ \A j \in OkCalls : ToUpperCase(calls[j].method) = GET => j = 1
    /\ Returns(GET, <<"/", "a", "a", "/", "a">>, 1)
    /\ Find(GET, <<"/", "a", "a">>).isNull
    /\ Find(GET, <<"/", "a", "a", "/">>).isNull

----------------------------------------------------------------------------
\* Entry k of the history of x is the invocation of the middleware at
\* position i
IsFn(x, k, i) == x.log[k].f = "fn" /\ x.log[k].i = i

ChainOrderKept(x) ==
    /\ 0 <= x.idx /\ x.idx <= x.n
    /\ \A k \in DOMAIN x.log :
          /\ x.log[k].f = "fn" =>
                /\ x.log[k].i \in 0..(x.n - 1)
                /\ \A l \in DOMAIN x.log : IsFn(x, l, x.log[k].i) => l = k
                /\ \A j \in 0..(x.log[k].i - 1) :
                      \E l \in 1..(k - 1) : IsFn(x, l, j)
          /\ x.log[k].f = "handler" =>
                \A j \in 0..(x.n - 1) : \E l \in 1..(k - 1) : IsFn(x, l, j)

ChainOrderKeptInAll == \A e \in Execs : ChainOrderKept(exec[e])

\* C37: in every execution, whatever continuation calls are made, the
\* middleware at position i is invoked at most once and only after the
\* middleware at positions 0..i-1, the handler is invoked only after every
\* middleware of the list, and the cursor never decreases and never
\* exceeds the length of the list.
C37_ChainOrderKept ==
    /\ []ChainOrderKeptInAll
    /\ [][\A e \in Execs : exec'[e].started = exec[e].started
                              => exec'[e].idx >= exec[e].idx]_vars

\* The middleware of a list of one called next(err) and then next(): the
\* error handler and the handler were both invoked, the middleware once
C37_Witness ==
    \E e \in Execs :
        LET x == exec[e] IN
        /\ x.n = 1 /\ x.idx = 1
        /\ x.nextArgs = << <<"Error", Undefined>> >>
        /\ TimesInvoked(x, "fn") = 1
        /\ TimesInvoked(x, "errorHandler") = 1
        /\ TimesInvoked(x, "handler") = 1

----------------------------------------------------------------------------
\* C38: interleaved execute() calls on one MiddlewareChain do not affect
\* each other. Every step that changes an execution is a step of that
\* execution's own chain, taken from its own cursor and history as if it
\* ran alone, and it leaves the cursor and the history of the other
\* execution as they were; within each execution the order of C37 holds.
C38_ExecutionsIndependent ==
    /\ []ChainOrderKeptInAll
    /\ [][\A e \in Execs :
             exec'[e] # exec[e] =>
                 /\ RunsOf(e)
                 /\ \A f \in Execs \ {e} : exec'[f] = exec[f]]_vars

\* Both executions are in flight at once with different cursors: the
\* first is suspended at its second middleware, the second at its first
C38_Witness ==
    /\ stack = <<>>
    /\ exec[1].n = 2 /\ exec[1].idx = 2 /\ exec[2].n = 2 /\ exec[2].idx = 1
    /\ exec[1].nextArgs = << <<Undefined>>, <<>> >>
    /\ exec[2].nextArgs = << <<>>, <<>> >>
    /\ TimesInvoked(exec[1], "fn") = 2 /\ TimesInvoked(exec[2], "fn") = 1

----------------------------------------------------------------------------
\* C39: the error check precedes the sent check. After the response was
\* sent, a continuation called with an error, a middleware throw and a
\* rejection of a middleware's promise, whatever the value, still invoke
\* the error handler with it; only a continuation called without an error
\* is dropped.
C39_ErrorBeforeSent ==
    [][ /\ \A err \in NextArgs \ {Undefined} :
              (stack # <<>> /\ exec[Top.e].sent /\ CallNext(err))
              => ErrorHandlerInvokedWith(Top.e, err)
        /\ \A e \in Execs, i \in 0..(MaxFns - 1), err \in NextArgs \ {Undefined} :
              (exec[e].sent /\ CallNextLater(e, i, err))
              => ErrorHandlerInvokedWith(e, err)
        /\ \A v \in ThrowValues :
              (stack # <<>> /\ Top.f = "fn" /\ exec[Top.e].sent /\ Throw(v))
              => ErrorHandlerInvokedWith(Top.e, v)
        /\ \A e \in Execs, v \in ThrowValues :
              (exec[e].sent /\ RejectMw(e, v)) => ErrorHandlerInvokedWith(e, v)
        /\ (stack # <<>> /\ exec[Top.e].sent /\ CallNext(Undefined))
              => NothingInvoked(Top.e)
      ]_vars

====
